---- MODULE Spec2Model ----
(***************************************************************************)
(* Appointment management service: the appointment/slot store, the four    *)
(* use cases of AppointmentService (create, confirm/reject, update,        *)
(* cancel) executed by concurrent request handlers, each with its own      *)
(* database session, and the RabbitMQ event publisher they share.          *)
(*                                                                         *)
(* A request handler reads the store, changes its own copy of the          *)
(* appointment (the ORM object of its session) and commits; the commit     *)
(* writes the columns the handler changed.  The slot's is_booked column is *)
(* maintained by a database trigger on the appointments table.             *)
(***************************************************************************)
EXTENDS Integers, Sequences, FiniteSets, TLC

VARIABLES
    appts,      \* appointments table: sequence of rows, the id is the index
    booked,     \* doctor_available_slots.is_booked, by slot id
    ws,         \* request handlers: position and session-local state
    pubs,       \* publish attempts made so far, by appointment id
    conn,       \* publisher's connection/channel: "none", "open", "closed"
    brokerUp,   \* whether the RabbitMQ broker was reachable at the last call
    now,        \* wall clock, in seconds
    nreq,       \* number of requests received in this run
    proc        \* the server process: its phase and its global _event_publisher

vars == <<appts, booked, ws, pubs, conn, brokerUp, now, nreq, proc>>

----------------------------------------------------------------------------
(* Bounds *)

\* requests served in one run
MaxRequests == 3

\* rows of the appointments table
MaxAppts == 2

\* how long a connection attempt that gets no answer is waited for
ConnectWaits == 2

Workers == {"w1", "w2"}

DaySeconds == 86400

\* the instants the clock takes: 08:00 on day 1, one hour before slots 1 and
\* 2 and 25 hours before slot 3, and 08:45 on day 2, when slots 1 and 2 are
\* in the past and slot 3 is 15 minutes ahead
ClockInstants == {DaySeconds + 28800, 2 * DaySeconds + 31500}

----------------------------------------------------------------------------
(* Reference data: patients, doctors, slots (never changed by the service) *)

PatientIds == {1, 2}

\* doctors 1 and 3 work in department 1, doctor 2 in department 2; doctor 4
\* has left
DoctorIds == {1, 2, 3, 4}

doctor_department_id == (1 :> 1) @@ (2 :> 2) @@ (3 :> 1) @@ (4 :> 1)

doctor_is_active == (1 :> TRUE) @@ (2 :> TRUE) @@ (3 :> TRUE) @@ (4 :> FALSE)

SlotIds == {1, 2, 3}

\* slots 1 and 2 belong to doctor 1 and have the same date and start time
slot_doctor_id == (1 :> 1) @@ (2 :> 1) @@ (3 :> 2)

slot_available_date == (1 :> 1) @@ (2 :> 1) @@ (3 :> 2)

slot_start_time == (1 :> 32400) @@ (2 :> 32400) @@ (3 :> 32400)

\* request inputs: ids that exist and one that does not
PatientArgs == {1, 3}

DoctorArgs == {1, 2, 3, 4, 5}

DepartmentArgs == {1, 2}

SlotArgs == {1, 2, 3, 4}

----------------------------------------------------------------------------
(* Appointment rows *)

Fields == {"patient_id", "doctor_id", "department_id", "slot_id",
           "appointment_date", "appointment_time", "reason", "is_emergency",
           "status", "confirmed_by", "confirmed_at", "rejection_reason",
           "rejected_at", "cancelled_by", "cancelled_at",
           "cancellation_reason"}

\* None of an integer column, of a timestamp column and of a text column
NoId == 0

NoTime == -1

NoText == "NONE"

Active == {"PENDING", "CONFIRMED"}

Today == now \div DaySeconds

Ids == 1..Len(appts)

NoRow == [f \in Fields |-> NoId]

\* the UPDATE a session flushes on commit sets the columns whose value
\* differs from the value loaded
Changed(orig, obj) == {f \in Fields : obj[f] # orig[f]}

Flush(row, obj, dirty) == [f \in Fields |-> IF f \in dirty THEN obj[f] ELSE row[f]]

----------------------------------------------------------------------------
(* Database trigger on appointments: books the slot of an inserted row,    *)
(* releases the slot of a row that becomes CANCELLED, and moves the        *)
(* booking when the slot of a row changes.                                 *)

TriggerInsert(b, new) == [b EXCEPT ![new["slot_id"]] = TRUE]

TriggerUpdate(b, old, new) ==
    LET moved == IF old["slot_id"] # new["slot_id"]
                 THEN [b EXCEPT ![old["slot_id"]] = FALSE, ![new["slot_id"]] = TRUE]
                 ELSE b
    IN IF new["status"] = "CANCELLED" /\ old["status"] # "CANCELLED"
       THEN [moved EXCEPT ![new["slot_id"]] = FALSE]
       ELSE moved

----------------------------------------------------------------------------
(* Request handlers *)

\* a process in service: the lifespan has constructed the publisher, the one
\* instance there is, and has not closed it
Serving == [phase |-> "serving", instance |-> 1, built |-> 1, closed |-> FALSE]

\* a publish call that has not started: the result of its health check
\* ("unchecked", "healthy" or "unhealthy"), how long its reconnect has waited
\* and whether it was given up, the
\* reconnects it made, what its reconnect declared, the sends it made, and
\* how it ended
NoCall == [health |-> "unchecked", reconnects |-> 0, declared |-> {}, sends |-> 0,
           outcome |-> "none", waited |-> 0, timeout |-> FALSE]

\* op, pc, id, arg, obj, dirty, was: the handler's position and locals;
\* res: its response; loaded, committed, sent, delivered: what it has seen
\* and done so far (the status it loaded, whether its commit is through, the
\* publish calls it made and what the last one returned); call: the steps of
\* its publish call
IdleW == [op |-> "none", pc |-> "idle", res |-> "none", id |-> 0,
          arg |-> <<>>, obj |-> NoRow, dirty |-> {}, was |-> FALSE,
          loaded |-> "none", committed |-> FALSE, sent |-> <<>>, delivered |-> FALSE,
          call |-> NoCall]

\* a request that failed a check: the exception is its response
Failed(op, res) ==
    [IdleW EXCEPT !.op = op, !.pc = "done", !.res = res]

\* a confirm, update or cancel request that failed a check: the exception is
\* its response; id is the appointment the request named
Refused(op, res, id) ==
    [IdleW EXCEPT !.op = op, !.pc = "done", !.res = res, !.id = id]

\* a response is observed as soon as it is produced: Responded is a step
\* local to the handler, taken before any other step
Quiet == \A v \in Workers : ws[v].pc # "done"

\* the handlers are interchangeable: a request goes to the first idle one
WorkerRank == ("w1" :> 1) @@ ("w2" :> 2)

\* a handler that can take a request
Free(w) ==
    /\ Quiet /\ ws[w].pc = "idle" /\ nreq < MaxRequests
    /\ \A v \in Workers : ws[v].pc = "idle" => WorkerRank[w] <= WorkerRank[v]

\* a request that went through: the session is closed, the response is sent
Succeeded(r, id) ==
    [IdleW EXCEPT !.op = r.op, !.pc = "done", !.res = "ok", !.id = id,
                  !.arg = r.arg,
                  !.loaded = r.loaded, !.committed = TRUE, !.sent = r.sent,
                  !.delivered = r.delivered, !.call = r.call]

Init ==
    /\ appts = <<>>
    /\ booked = [s \in SlotIds |-> FALSE]
    /\ ws = [w \in Workers |-> IdleW]
    /\ pubs = <<>>
    /\ brokerUp \in BOOLEAN
    /\ conn = IF brokerUp THEN "open" ELSE "none"
    /\ now = DaySeconds + 28800
    /\ nreq = 0
    /\ proc = Serving

\* AppointmentRepository.get_by_id
get_by_id(id) == IF id \in Ids THEN appts[id] ELSE NoRow

\* AvailableSlotRepository.is_slot_available
is_slot_available(slot_id) ==
    /\ slot_id \in SlotIds
    /\ booked[slot_id] = FALSE
    /\ slot_available_date[slot_id] >= Today

\* the create requests
CreateArgs ==
    [patient_id : PatientArgs, doctor_id : DoctorArgs, department_id : DepartmentArgs,
     slot_id : SlotArgs, reason : {"r1"}, is_emergency : BOOLEAN]

\* the status code of each response of create_appointment
CreateStatus ==
    [r \in {"PatientNotFound", "DoctorNotFound"} |-> 404]
    @@ [r \in {"DepartmentMismatch", "SlotNotAvailable", "InvalidSlot"} |-> 400]
    @@ [r \in {"ok"} |-> 201]

\* a create_appointment that does not compare the slot's doctor with the
\* requested one
CreateResult_NoOwnerCheck(a) ==
    IF a.patient_id \notin PatientIds THEN "PatientNotFound"
    ELSE IF a.doctor_id \notin DoctorIds \/ ~doctor_is_active[a.doctor_id] THEN "DoctorNotFound"
    ELSE IF doctor_department_id[a.doctor_id] # a.department_id THEN "DepartmentMismatch"
    ELSE IF ~is_slot_available(a.slot_id) THEN "SlotNotAvailable"
    ELSE "ok"

\* create_appointment, steps 1-5: the checks, the last read of the store
\* before the insert
CreateResult(a) ==
    IF a.patient_id \notin PatientIds THEN "PatientNotFound"
    ELSE IF a.doctor_id \notin DoctorIds \/ ~doctor_is_active[a.doctor_id] THEN "DoctorNotFound"
    ELSE IF doctor_department_id[a.doctor_id] # a.department_id THEN "DepartmentMismatch"
    ELSE IF ~is_slot_available(a.slot_id) THEN "SlotNotAvailable"
    ELSE IF a.slot_id \notin SlotIds \/ slot_doctor_id[a.slot_id] # a.doctor_id THEN "InvalidSlot"
    ELSE "ok"

\* inserts in flight count towards the rows of the table
Inserting == {v \in Workers : ws[v].op = "create" /\ ws[v].pc = "commit"}

CreateCheck(w) ==
    /\ Free(w)
    /\ Len(appts) + Cardinality(Inserting) < MaxAppts
    /\ nreq' = nreq + 1
    /\ \E p \in PatientArgs, d \in DoctorArgs, dep \in DepartmentArgs,
          s \in SlotArgs, e \in BOOLEAN :
         LET a == [patient_id |-> p, doctor_id |-> d, department_id |-> dep,
                   slot_id |-> s, reason |-> "r1", is_emergency |-> e]
             r == CreateResult(a)
         IN ws' = [ws EXCEPT ![w] =
                     IF r = "ok"
                     THEN [IdleW EXCEPT !.op = "create", !.pc = "commit", !.arg = <<a>>]
                     ELSE Failed("create", r)]
    /\ UNCHANGED <<proc, appts, booked, pubs, conn, brokerUp, now>>

\* a create_appointment that stores an emergency appointment as CONFIRMED
NewAppointment_EmergencyConfirmed(a) ==
    [NoRow EXCEPT !["patient_id"] = a.patient_id,
                  !["doctor_id"] = a.doctor_id,
                  !["department_id"] = a.department_id,
                  !["slot_id"] = a.slot_id,
                  !["appointment_date"] = slot_available_date[a.slot_id],
                  !["appointment_time"] = slot_start_time[a.slot_id],
                  !["reason"] = a.reason,
                  !["is_emergency"] = a.is_emergency,
                  !["status"] = IF a.is_emergency THEN "CONFIRMED" ELSE "PENDING",
                  !["confirmed_at"] = NoTime,
                  !["rejection_reason"] = NoText,
                  !["rejected_at"] = NoTime,
                  !["cancelled_by"] = NoText,
                  !["cancelled_at"] = NoTime,
                  !["cancellation_reason"] = NoText]

\* create_appointment, step 6: the row to insert
NewAppointment(a) ==
    [NoRow EXCEPT !["patient_id"] = a.patient_id,
                  !["doctor_id"] = a.doctor_id,
                  !["department_id"] = a.department_id,
                  !["slot_id"] = a.slot_id,
                  !["appointment_date"] = slot_available_date[a.slot_id],
                  !["appointment_time"] = slot_start_time[a.slot_id],
                  !["reason"] = a.reason,
                  !["is_emergency"] = a.is_emergency,
                  !["status"] = "PENDING",
                  !["confirmed_at"] = NoTime,
                  !["rejection_reason"] = NoText,
                  !["rejected_at"] = NoTime,
                  !["cancelled_by"] = NoText,
                  !["cancelled_at"] = NoTime,
                  !["cancellation_reason"] = NoText]

\* create_appointment, steps 6-8: insert and commit; the trigger books the slot
CreateCommit(w) ==
    /\ Quiet /\ ws[w].op = "create" /\ ws[w].pc = "commit"
    /\ LET row == NewAppointment(ws[w].arg[1])
       IN /\ appts' = Append(appts, row)
          /\ booked' = TriggerInsert(booked, row)
          /\ pubs' = Append(pubs, <<>>)
          /\ ws' = [ws EXCEPT ![w] = Succeeded(ws[w], Len(appts) + 1)]
    /\ UNCHANGED <<proc, conn, brokerUp, now, nreq>>

----------------------------------------------------------------------------
(* Event publisher (one instance shared by all handlers) *)

\* a health check that asks only whether there is a connection object
is_connection_healthy_ExistsOnly == conn # "none"

\* _is_connection_healthy, lines 204-212
is_connection_healthy == conn = "open"

\* _setup_connection: a new connection and channel, or None for both
setup_connection(up) == IF up THEN "open" ELSE "none"

\* publish_appointment_confirmed_today / publish_appointment_cancelled, with
\* the broker reachable or not during the call: the connection they leave
\* behind and the boolean they return
PublishConn(up) ==
    LET c == IF is_connection_healthy THEN conn ELSE setup_connection(up)
    IN IF c = "none" THEN "none" ELSE IF up THEN "open" ELSE "closed"

PublishDelivered(up) ==
    LET c == IF is_connection_healthy THEN conn ELSE setup_connection(up)
    IN c # "none" /\ up

\* one publish call; the broker may have gone away or come back since the
\* last one
Publish(w, kind) ==
    /\ brokerUp' \in BOOLEAN
    /\ pubs' = [pubs EXCEPT ![ws[w].id] = Append(@, kind)]
    /\ conn' = PublishConn(brokerUp')

\* a handler that turns a failed publish into an error response
Published_Escalates(r, kind, delivered, pc) ==
    IF delivered
    THEN [r EXCEPT !.pc = pc, !.sent = Append(@, kind), !.delivered = delivered]
    ELSE [IdleW EXCEPT !.op = r.op, !.pc = "done", !.res = "PublishFailed",
                       !.id = r.id, !.sent = Append(r.sent, kind)]

\* the handler after its publish call returned: the try/except around the
\* call goes on to pc whatever the call returned
Published(r, kind, delivered, pc) ==
    [r EXCEPT !.pc = pc, !.sent = Append(@, kind), !.delivered = delivered]

----------------------------------------------------------------------------
(* Use case 2: confirm or reject *)

\* the ids in the table and one that is not
AppointmentArgs == 1..(Len(appts) + 1)

\* the caller of confirm, update and cancel: a doctor id or a patient id
UserArgs == {1, 2}

ActionArgs == {"confirm", "Reject", "postpone"}

lower(a) == IF a = "Reject" THEN "reject" ELSE a

ReasonArgs == {NoText, "", "why"}

\* a test that takes the empty string for a reason
Falsy_OnlyMissing(t) == t = NoText

\* not confirm_data.rejection_reason: None or the empty string
Falsy(t) == t \in {NoText, ""}

\* the confirm requests: a rejection reason goes with the reject action
ConfirmArgs ==
    [action : ActionArgs, rejection_reason : {NoText}]
    \cup [action : {"Reject"}, rejection_reason : ReasonArgs]

\* a confirm_appointment without the doctor authorization check
ConfirmResult_NoOwnerCheck(id, action, rejection_reason, confirmed_by) ==
    IF id \notin Ids THEN "AppointmentNotFound"
    ELSE IF appts[id]["status"] # "PENDING" THEN "NotPending"
    ELSE IF lower(action) = "confirm" THEN "ok"
    ELSE IF lower(action) = "reject"
         THEN IF Falsy(rejection_reason) THEN "RejectionReasonRequired" ELSE "ok"
    ELSE "InvalidAction"

ConfirmResult(id, action, rejection_reason, confirmed_by) ==
    IF id \notin Ids THEN "AppointmentNotFound"
    ELSE IF appts[id]["status"] # "PENDING" THEN "NotPending"
    ELSE IF appts[id]["doctor_id"] # confirmed_by THEN "NotYourAppointment"
    ELSE IF lower(action) = "confirm" THEN "ok"
    ELSE IF lower(action) = "reject"
         THEN IF Falsy(rejection_reason) THEN "RejectionReasonRequired" ELSE "ok"
    ELSE "InvalidAction"

Confirmed(row, confirmed_by) ==
    [row EXCEPT !["status"] = "CONFIRMED",
                !["confirmed_by"] = confirmed_by,
                !["confirmed_at"] = now]

Rejected(row, rejection_reason) ==
    [row EXCEPT !["status"] = "REJECTED",
                !["rejection_reason"] = rejection_reason,
                !["rejected_at"] = now]

\* a confirm_appointment that publishes in the reject branch as well
ConfirmNext_PublishOnReject(action) == "publish"

\* confirm_appointment, lines 179-230: only the confirm branch publishes
ConfirmNext(action) == IF lower(action) = "confirm" THEN "publish" ELSE "commit"

\* confirm_appointment, steps 1-4 up to the publish: load, validate, change
\* the session's object
ConfirmLoad(w) ==
    /\ Free(w)
    /\ nreq' = nreq + 1
    /\ \E id \in AppointmentArgs, c \in ConfirmArgs, by \in UserArgs :
         LET action == c.action
             rr == c.rejection_reason
             r == ConfirmResult(id, action, rr, by)
             obj == IF lower(action) = "confirm"
                    THEN Confirmed(appts[id], by)
                    ELSE Rejected(appts[id], rr)
         IN ws' = [ws EXCEPT ![w] =
                     IF r = "ok"
                     THEN [IdleW EXCEPT !.op = "confirm", !.id = id,
                              !.pc = ConfirmNext(action),
                              !.arg = IF lower(action) = "reject"
                                      THEN <<"reject", rr>>
                                      ELSE <<lower(action)>>,
                              !.loaded = appts[id]["status"],
                              !.obj = obj, !.dirty = Changed(appts[id], obj)]
                     ELSE Refused("confirm", r, id)]
    /\ UNCHANGED <<proc, appts, booked, pubs, conn, brokerUp, now>>

\* confirm_appointment, lines 186-209: the publish attempt of a confirm
ConfirmPublish(w) ==
    /\ Quiet /\ ws[w].op = "confirm" /\ ws[w].pc = "publish"
    /\ Publish(w, "appointment_confirmed")
    /\ ws' = [ws EXCEPT ![w] = Published(ws[w], "appointment_confirmed",
                                          PublishDelivered(brokerUp'), "commit")]
    /\ UNCHANGED <<proc, appts, booked, now, nreq>>

\* a commit after which the slot of a cancelled row is released by inverting
\* its flag
Commit_ReleaseInverts(w) ==
    LET old == appts[ws[w].id]
        new == Flush(old, ws[w].obj, ws[w].dirty)
    IN /\ appts' = [appts EXCEPT ![ws[w].id] = new]
       /\ booked' = IF new["status"] = "CANCELLED"
                    THEN [booked EXCEPT ![new["slot_id"]] = ~@]
                    ELSE TriggerUpdate(booked, old, new)

\* AppointmentRepository.update: commit of the session's changes; the
\* trigger runs on the updated row
Commit(w) ==
    LET old == appts[ws[w].id]
        new == Flush(old, ws[w].obj, ws[w].dirty)
    IN /\ appts' = [appts EXCEPT ![ws[w].id] = new]
       /\ booked' = IF ws[w].dirty = {} THEN booked ELSE TriggerUpdate(booked, old, new)

\* confirm_appointment, step 5
ConfirmCommit(w) ==
    /\ Quiet /\ ws[w].op = "confirm" /\ ws[w].pc = "commit"
    /\ Commit(w)
    /\ ws' = [ws EXCEPT ![w] = Succeeded(ws[w], ws[w].id)]
    /\ UNCHANGED <<proc, pubs, conn, brokerUp, now, nreq>>

----------------------------------------------------------------------------
(* Use case 4: cancel *)

RoleArgs == {"PATIENT", "DOCTOR", "ADMIN"}

CancelReasonArgs == {"c1"}

RegularLeadSeconds == 7200

EmergencyLeadSeconds == 1800

\* (appointment_datetime - datetime.now()).total_seconds()
SecondsUntil(row) ==
    row["appointment_date"] * DaySeconds + row["appointment_time"] - now

\* a lead-time rule that also denies a request exactly at the threshold
LeadTimeResult_Exclusive(row) ==
    IF ~row["is_emergency"] /\ SecondsUntil(row) <= RegularLeadSeconds
    THEN "TooLateRegular"
    ELSE IF row["is_emergency"] /\ SecondsUntil(row) <= EmergencyLeadSeconds
    THEN "TooLateEmergency"
    ELSE "ok"

\* a lead-time rule that lets every request through
LeadTimeResult_NeverDenies(row) == "ok"

\* cancel_appointment, step 4: hours_until_appointment < 2 for a regular
\* appointment, < 0.5 for an emergency one
LeadTimeResult(row) ==
    IF ~row["is_emergency"] /\ SecondsUntil(row) < RegularLeadSeconds
    THEN "TooLateRegular"
    ELSE IF row["is_emergency"] /\ SecondsUntil(row) < EmergencyLeadSeconds
    THEN "TooLateEmergency"
    ELSE "ok"

\* a cancel_appointment that takes any role other than PATIENT for the doctor
CancelResult_AnyRole(id, cancelled_by, user) ==
    IF id \notin Ids THEN "AppointmentNotFound"
    ELSE IF appts[id]["status"] = "CANCELLED" THEN "AlreadyCancelled"
    ELSE IF appts[id]["status"] \notin Active THEN "CannotCancel"
    ELSE IF cancelled_by = "PATIENT" /\ appts[id]["patient_id"] # user THEN "NotYourAppointment"
    ELSE IF cancelled_by # "PATIENT" /\ appts[id]["doctor_id"] # user THEN "NotYourAppointment"
    ELSE LeadTimeResult(appts[id])

CancelResult(id, cancelled_by, user) ==
    IF id \notin Ids THEN "AppointmentNotFound"
    ELSE IF appts[id]["status"] = "CANCELLED" THEN "AlreadyCancelled"
    ELSE IF appts[id]["status"] \notin Active THEN "CannotCancel"
    ELSE IF cancelled_by = "PATIENT" /\ appts[id]["patient_id"] # user THEN "NotYourAppointment"
    ELSE IF cancelled_by = "DOCTOR" /\ appts[id]["doctor_id"] # user THEN "NotYourAppointment"
    ELSE IF cancelled_by \notin {"PATIENT", "DOCTOR"} THEN "InvalidCancelledBy"
    ELSE LeadTimeResult(appts[id])

Cancelled(row, cancelled_by, cancellation_reason) ==
    [row EXCEPT !["status"] = "CANCELLED",
                !["cancelled_by"] = cancelled_by,
                !["cancelled_at"] = now,
                !["cancellation_reason"] = cancellation_reason]

\* cancel_appointment, steps 1-5: load, validate, change the session's object
CancelLoad(w) ==
    /\ Free(w)
    /\ nreq' = nreq + 1
    /\ \E id \in AppointmentArgs, role \in RoleArgs, user \in UserArgs,
          cr \in CancelReasonArgs :
         LET r == CancelResult(id, role, user)
             obj == Cancelled(appts[id], role, cr)
         IN ws' = [ws EXCEPT ![w] =
                     IF r = "ok"
                     THEN [IdleW EXCEPT !.op = "cancel", !.id = id, !.pc = "commit",
                              !.arg = <<role, cr>>,
                              !.was = (appts[id]["status"] = "CONFIRMED"),
                              !.loaded = appts[id]["status"],
                              !.obj = obj, !.dirty = Changed(appts[id], obj)]
                     ELSE Refused("cancel", r, id)]
    /\ UNCHANGED <<proc, appts, booked, pubs, conn, brokerUp, now>>

\* a cancel_appointment that publishes whatever the earlier status was
CancelPublishes_Always(was_previously_confirmed) == TRUE

\* cancel_appointment, line 390: if was_previously_confirmed
CancelPublishes(was_previously_confirmed) == was_previously_confirmed

\* cancel_appointment, step 6: commit; the trigger releases the slot
CancelCommit(w) ==
    /\ Quiet /\ ws[w].op = "cancel" /\ ws[w].pc = "commit"
    /\ Commit(w)
    /\ ws' = [ws EXCEPT ![w] =
                IF CancelPublishes(ws[w].was)
                THEN [IdleW EXCEPT !.op = "cancel", !.id = ws[w].id, !.pc = "publish",
                                   !.arg = ws[w].arg,
                                   !.was = ws[w].was, !.loaded = ws[w].loaded,
                                   !.committed = TRUE]
                ELSE Succeeded(ws[w], ws[w].id)]
    /\ UNCHANGED <<proc, pubs, conn, brokerUp, now, nreq>>

\* cancel_appointment, lines 389-415: the publish attempt of a cancel
CancelPublish(w) ==
    /\ Quiet /\ ws[w].op = "cancel" /\ ws[w].pc = "publish"
    /\ Publish(w, "appointment_cancelled")
    /\ ws' = [ws EXCEPT ![w] =
                Succeeded(Published(ws[w], "appointment_cancelled",
                                    PublishDelivered(brokerUp'), "done"),
                          ws[w].id)]
    /\ UNCHANGED <<proc, appts, booked, now, nreq>>

----------------------------------------------------------------------------
(* Use case 3: update *)

NewDoctorArgs == {NoId, 1, 2, 3, 4}

NewSlotArgs == {NoId, 1, 2, 3, 4}

\* Optional[bool]: no value, or one
NoFlag == {}

\* the update requests: any new doctor with any new slot, or a new reason
\* alone, or a new emergency flag alone
UpdateArgs ==
    [doctor_id : NewDoctorArgs, slot_id : NewSlotArgs, reason : {NoText}, is_emergency : {NoFlag}]
    \cup [doctor_id : {NoId}, slot_id : {NoId}, reason : {"r2"}, is_emergency : {NoFlag}]
    \cup [doctor_id : {NoId}, slot_id : {NoId}, reason : {NoText}, is_emergency : {{TRUE}, {FALSE}}]

\* an update_appointment without the check of the appointment date
UpdateResult_NoPastCheck(id, patient, doctor_id) ==
    IF id \notin Ids THEN "AppointmentNotFound"
    ELSE IF appts[id]["patient_id"] # patient THEN "NotYourAppointment"
    ELSE IF appts[id]["status"] \notin Active THEN "CannotUpdate"
    ELSE IF /\ doctor_id # NoId /\ doctor_id # appts[id]["doctor_id"]
            /\ (doctor_id \notin DoctorIds \/ ~doctor_is_active[doctor_id])
         THEN "NewDoctorNotFound"
    ELSE "ok"

UpdateResult(id, patient, doctor_id) ==
    IF id \notin Ids THEN "AppointmentNotFound"
    ELSE IF appts[id]["patient_id"] # patient THEN "NotYourAppointment"
    ELSE IF appts[id]["status"] \notin Active THEN "CannotUpdate"
    ELSE IF appts[id]["appointment_date"] < Today THEN "PastAppointment"
    ELSE IF /\ doctor_id # NoId /\ doctor_id # appts[id]["doctor_id"]
            /\ (doctor_id \notin DoctorIds \/ ~doctor_is_active[doctor_id])
         THEN "NewDoctorNotFound"
    ELSE "ok"

\* update_appointment, lines 271-280
WithDoctor(row, doctor_id) ==
    IF doctor_id # NoId /\ doctor_id # row["doctor_id"]
    THEN [row EXCEPT !["department_id"] = doctor_department_id[doctor_id],
                     !["doctor_id"] = doctor_id]
    ELSE row

\* an update that sends the appointment back to PENDING when its reason changes
WithReason_ResetsStatus(row, reason, emergency) ==
    [row EXCEPT !["reason"] = IF reason # NoText THEN reason ELSE @,
                !["status"] = IF reason # NoText THEN "PENDING" ELSE @,
                !["is_emergency"] = IF emergency # NoFlag THEN (CHOOSE e \in emergency : TRUE) ELSE @]

\* update_appointment, lines 303-307
WithReason(row, reason, emergency) ==
    [row EXCEPT !["reason"] = IF reason # NoText THEN reason ELSE @,
                !["is_emergency"] = IF emergency # NoFlag THEN (CHOOSE e \in emergency : TRUE) ELSE @]

\* update_appointment, lines 282-301
SlotResult(obj, slot_id) ==
    IF ~is_slot_available(slot_id) THEN "NewSlotNotAvailable"
    ELSE IF slot_id \notin SlotIds THEN "NewSlotNotFound"
    ELSE IF slot_doctor_id[slot_id] # obj["doctor_id"] THEN "NewSlotWrongDoctor"
    ELSE "ok"

WithSlot(row, slot_id) ==
    [row EXCEPT !["slot_id"] = slot_id,
                !["appointment_date"] = slot_available_date[slot_id],
                !["appointment_time"] = slot_start_time[slot_id]]

\* update_appointment, steps 1-5 up to the slot query: load, validate, change
\* doctor, reason and emergency flag of the session's object
UpdateLoad(w) ==
    /\ Free(w)
    /\ nreq' = nreq + 1
    /\ \E id \in AppointmentArgs, patient \in UserArgs, d \in NewDoctorArgs :
         LET r == UpdateResult(id, patient, d)
         IN IF r # "ok"
            THEN ws' = [ws EXCEPT ![w] = Refused("update", r, id)]
            ELSE \E u \in UpdateArgs :
                   LET obj == WithReason(WithDoctor(appts[id], d), u.reason, u.is_emergency)
                       slotChange == u.slot_id # NoId /\ u.slot_id # appts[id]["slot_id"]
                   IN /\ u.doctor_id = d
                      /\ ws' = [ws EXCEPT ![w] =
                               [IdleW EXCEPT !.op = "update", !.id = id,
                                  !.loaded = appts[id]["status"],
                                  !.pc = IF slotChange THEN "slot" ELSE "commit",
                                  !.arg = <<u>>,
                                  !.obj = obj, !.dirty = Changed(appts[id], obj)]]
    /\ UNCHANGED <<proc, appts, booked, pubs, conn, brokerUp, now>>

\* an update_appointment whose refusal at the slot commits what the handler
\* had assigned so far
UpdateSlot_CommitsOnRefusal(w) ==
    /\ Quiet /\ ws[w].op = "update" /\ ws[w].pc = "slot"
    /\ nreq' = nreq
    /\ LET s == ws[w].arg[1].slot_id
           r == SlotResult(ws[w].obj, s)
           obj == WithSlot(ws[w].obj, s)
       IN /\ ws' = [ws EXCEPT ![w] =
                      IF r = "ok"
                      THEN [@ EXCEPT !.pc = "commit", !.obj = obj,
                                     !.dirty = @ \cup Changed(ws[w].obj, obj)]
                      ELSE [Refused("update", r, ws[w].id) EXCEPT !.obj = ws[w].obj]]
          /\ appts' = IF r = "ok" THEN appts
                      ELSE [appts EXCEPT ![ws[w].id] = Flush(@, ws[w].obj, ws[w].dirty)]
    /\ UNCHANGED <<proc, booked, pubs, conn, brokerUp, now>>

\* update_appointment, lines 282-301: the availability query and the slot
\* change. A refusal leaves the session's object as the handler had changed
\* it; it is discarded with the session
UpdateSlot(w) ==
    /\ Quiet /\ ws[w].op = "update" /\ ws[w].pc = "slot"
    /\ nreq' = nreq
    /\ LET s == ws[w].arg[1].slot_id
           r == SlotResult(ws[w].obj, s)
           obj == WithSlot(ws[w].obj, s)
       IN ws' = [ws EXCEPT ![w] =
                   IF r = "ok"
                   THEN [@ EXCEPT !.pc = "commit", !.obj = obj,
                                  !.dirty = @ \cup Changed(ws[w].obj, obj)]
                   ELSE [Refused("update", r, ws[w].id) EXCEPT !.obj = ws[w].obj]]
    /\ UNCHANGED <<proc, appts, booked, pubs, conn, brokerUp, now>>

\* update_appointment, step 6
UpdateCommit(w) ==
    /\ Quiet /\ ws[w].op = "update" /\ ws[w].pc = "commit"
    /\ Commit(w)
    /\ ws' = [ws EXCEPT ![w] = Succeeded(ws[w], ws[w].id)]
    /\ UNCHANGED <<proc, pubs, conn, brokerUp, now, nreq>>

----------------------------------------------------------------------------
(* Environment: time passes *)

Tick ==
    /\ Quiet
    /\ \E t \in ClockInstants : t > now /\ now' = t
    /\ UNCHANGED <<proc, appts, booked, ws, pubs, conn, brokerUp, nreq>>

\* the response leaves the handler, which is ready for the next request
Responded(w) ==
    /\ ws[w].pc = "done"
    /\ ws' = [ws EXCEPT ![w] = IdleW]
    /\ UNCHANGED <<proc, appts, booked, pubs, conn, brokerUp, now, nreq>>

Next ==
    \/ \E w \in Workers : CreateCheck(w)
    \/ \E w \in Workers : CreateCommit(w)
    \/ \E w \in Workers : ConfirmLoad(w)
    \/ \E w \in Workers : ConfirmPublish(w)
    \/ \E w \in Workers : ConfirmCommit(w)
    \/ \E w \in Workers : UpdateLoad(w)
    \/ \E w \in Workers : UpdateSlot(w)
    \/ \E w \in Workers : UpdateCommit(w)
    \/ \E w \in Workers : CancelLoad(w)
    \/ \E w \in Workers : CancelCommit(w)
    \/ \E w \in Workers : CancelPublish(w)
    \/ \E w \in Workers : Responded(w)
    \/ Tick

Spec == Init /\ [][Next]_vars

----------------------------------------------------------------------------
(* Cancellation requests around the lead-time thresholds: one appointment   *)
(* on slot 1, booked and possibly confirmed, and the clock at a chosen      *)
(* distance from the appointment                                            *)

\* seconds from the clock to the appointment: at each threshold, one second
\* inside it, far ahead, at the appointment, and past it
PolicyLeads ==
    {DaySeconds, RegularLeadSeconds, RegularLeadSeconds - 1,
     EmergencyLeadSeconds, EmergencyLeadSeconds - 1, 0, -1,
     -EmergencyLeadSeconds, -RegularLeadSeconds, -DaySeconds}

\* patient 1's appointment with doctor 1 on slot 1, as create_appointment
\* stores it
BookedAppointment(e) ==
    NewAppointment([patient_id |-> 1, doctor_id |-> 1, department_id |-> 1,
                    slot_id |-> 1, reason |-> "r1", is_emergency |-> e])

PolicyInit ==
    /\ \E lead \in PolicyLeads :
         now = slot_available_date[1] * DaySeconds + slot_start_time[1] - lead
    /\ \E e \in BOOLEAN, confirmed \in BOOLEAN :
         /\ appts = <<IF confirmed THEN Confirmed(BookedAppointment(e), 1)
                                   ELSE BookedAppointment(e)>>
         /\ pubs = <<IF confirmed THEN <<"appointment_confirmed">> ELSE <<>> >>
         /\ nreq = 0
    /\ booked = TriggerInsert([s \in SlotIds |-> FALSE], BookedAppointment(FALSE))
    /\ ws = [w \in Workers |-> IdleW]
    /\ brokerUp \in BOOLEAN
    /\ conn = IF brokerUp THEN "open" ELSE "none"
    /\ proc = Serving

PolicyNext ==
    \/ \E w \in Workers : CancelLoad(w)
    \/ \E w \in Workers : CancelCommit(w)
    \/ \E w \in Workers : CancelPublish(w)
    \/ \E w \in Workers : Responded(w)

PolicySpec == PolicyInit /\ [][PolicyNext]_vars

----------------------------------------------------------------------------
(* Update and cancel requests on an appointment that is already booked: one *)
(* PENDING appointment on slot 1, one hour ahead                            *)

RescheduleInit ==
    /\ \E e \in BOOLEAN : appts = <<BookedAppointment(e)>>
    /\ booked = TriggerInsert([s \in SlotIds |-> FALSE], BookedAppointment(FALSE))
    /\ pubs = << <<>> >>
    /\ ws = [w \in Workers |-> IdleW]
    /\ brokerUp \in BOOLEAN
    /\ conn = IF brokerUp THEN "open" ELSE "none"
    /\ now = DaySeconds + 28800
    /\ nreq = 0
    /\ proc = Serving

RescheduleNext ==
    \/ \E w \in Workers : UpdateLoad(w)
    \/ \E w \in Workers : UpdateSlot(w)
    \/ \E w \in Workers : UpdateCommit(w)
    \/ \E w \in Workers : CancelLoad(w)
    \/ \E w \in Workers : CancelCommit(w)
    \/ \E w \in Workers : Responded(w)

RescheduleSpec == RescheduleInit /\ [][RescheduleNext]_vars

----------------------------------------------------------------------------
(* Updates of the booked appointment while its doctor confirms or rejects   *)
(* it: Updates act on a PENDING and on a CONFIRMED appointment              *)

AmendNext ==
    \/ \E w \in Workers : UpdateLoad(w)
    \/ \E w \in Workers : UpdateSlot(w)
    \/ \E w \in Workers : UpdateCommit(w)
    \/ \E w \in Workers : ConfirmLoad(w)
    \/ \E w \in Workers : ConfirmPublish(w)
    \/ \E w \in Workers : ConfirmCommit(w)
    \/ \E w \in Workers : Responded(w)

AmendSpec == RescheduleInit /\ [][AmendNext]_vars

----------------------------------------------------------------------------
(* Booking requests alone: creates on an empty table, while time passes     *)

BookingNext ==
    \/ \E w \in Workers : CreateCheck(w)
    \/ \E w \in Workers : CreateCommit(w)
    \/ \E w \in Workers : Responded(w)
    \/ Tick

BookingSpec == Init /\ [][BookingNext]_vars

----------------------------------------------------------------------------
(* The publisher of one server process, call by call. The endpoints are     *)
(* coroutines that call the service without awaiting: the event loop of the *)
(* process runs a handler from its first line to its response before it     *)
(* starts the next one. One appointment on slot 1, a day ahead.             *)

\* the calls of _setup_connection and _setup_exchanges_and_queues, in order
SetupCalls ==
    <<"BlockingConnection", "channel", "exchange_declare appointment.events",
      "queue_declare appointment.confirmed", "queue_declare appointment.cancelled",
      "queue_bind appointment.confirmed", "queue_bind appointment.cancelled">>

\* what a reconnect has declared when its first k calls went through
Declared(k) == {SetupCalls[i] : i \in 3..k}

\* handlers that run in threads of their own
LoopFree_Threads(w) == ws[w].pc = "idle"

\* the event loop is free to start a handler for w: no other handler is
\* running
LoopFree(w) == \A v \in Workers \ {w} : ws[v].pc = "idle"

\* the steps of a publish call
PublishSteps == {"pub_setup", "pub_send", "pub_return"}

PublishKind(w) ==
    IF ws[w].op = "confirm" THEN "appointment_confirmed" ELSE "appointment_cancelled"

\* lines 97-99 and 155-156: the health check, the first thing a call does
PublishHealth(w) ==
    /\ ws[w].pc = "publish"
    /\ pubs' = [pubs EXCEPT ![ws[w].id] = Append(@, PublishKind(w))]
    /\ ws' = [ws EXCEPT ![w].pc = IF is_connection_healthy THEN "pub_send" ELSE "pub_setup",
                         ![w].call = [NoCall EXCEPT !.health = IF is_connection_healthy
                                                              THEN "healthy"
                                                              ELSE "unhealthy"]]
    /\ UNCHANGED <<proc, appts, booked, conn, brokerUp, now, nreq>>

\* a publish call that reconnects again when its reconnect failed
AfterSetup_Retries(c) == IF c = "none" THEN "pub_setup" ELSE "pub_send"

\* lines 101-103 and 158-160: without a channel the call returns False
AfterSetup(c) == IF c = "none" THEN "pub_return" ELSE "pub_send"

\* _setup_connection called from a publish call: the calls up to the first
\* that fails; a failure leaves neither connection nor channel
PublishSetup(w) ==
    /\ ws[w].pc = "pub_setup"
    /\ brokerUp' \in BOOLEAN
    /\ conn' = setup_connection(brokerUp')
    /\ \E k \in 0..Len(SetupCalls) :
         /\ (k = Len(SetupCalls)) <=> brokerUp'
         /\ ws' = [ws EXCEPT ![w].pc = AfterSetup(conn'),
                              ![w].call.reconnects = @ + 1,
                              ![w].call.declared = Declared(k),
                              ![w].call.outcome = IF conn' = "none" THEN "no channel" ELSE @]
    /\ UNCHANGED <<proc, appts, booked, pubs, now, nreq>>

\* a connection attempt that waits for its answer without limit
SetupTimedOut_Never(c) == FALSE

\* the connection attempt has waited as long as the connection parameters
\* allow (lines 22-32)
SetupTimedOut(c) == c.waited >= ConnectWaits

\* BlockingConnection(...) has no answer yet: the call blocks, time passes
PublishSetupWait(w) ==
    /\ ws[w].pc = "pub_setup"
    /\ ws[w].call.waited < ConnectWaits
    /\ ws' = [ws EXCEPT ![w].call.waited = @ + 1]
    /\ UNCHANGED <<proc, appts, booked, pubs, conn, brokerUp, now, nreq>>

\* the attempt is given up: BlockingConnection(...) raises, _setup_connection
\* catches it and leaves neither connection nor channel (lines 42-45)
PublishSetupTimeout(w) ==
    /\ ws[w].pc = "pub_setup"
    /\ SetupTimedOut(ws[w].call)
    /\ brokerUp' = FALSE
    /\ conn' = setup_connection(FALSE)
    /\ ws' = [ws EXCEPT ![w].pc = AfterSetup(conn'),
                         ![w].call.reconnects = @ + 1,
                         ![w].call.timeout = TRUE,
                         ![w].call.outcome = "no channel"]
    /\ UNCHANGED <<proc, appts, booked, pubs, now, nreq>>

\* basic_publish on the channel of connection c: the message is handed to
\* the channel, or the call raises
SendResult(c, up) == IF c = "open" /\ up THEN "sent" ELSE "raised"

\* lines 105-139 and 162-195: the message is built and sent
PublishSend(w) ==
    /\ ws[w].pc = "pub_send"
    /\ brokerUp' \in BOOLEAN
    /\ conn' = IF SendResult(conn, brokerUp') = "sent" THEN "open" ELSE "closed"
    /\ ws' = [ws EXCEPT ![w].pc = "pub_return",
                         ![w].call.sends = @ + 1,
                         ![w].call.outcome = SendResult(conn, brokerUp')]
    /\ UNCHANGED <<proc, appts, booked, pubs, now, nreq>>

\* a publish call that returns True whenever it got as far as the send
publish_return_AfterSend(outcome) == outcome \in {"sent", "raised"}

\* lines 103, 142, 146 and 160, 198, 202: what the call returns
publish_return(outcome) == outcome = "sent"

\* the call returns to confirm_appointment, which goes on to its commit, or
\* to cancel_appointment, which goes on to its response
PublishReturn(w) ==
    /\ ws[w].pc = "pub_return"
    /\ LET delivered == publish_return(ws[w].call.outcome)
       IN ws' = [ws EXCEPT ![w] =
                   IF ws[w].op = "confirm"
                   THEN Published(ws[w], PublishKind(w), delivered, "commit")
                   ELSE Succeeded(Published(ws[w], PublishKind(w), delivered, "done"),
                                  ws[w].id)]
    /\ UNCHANGED <<proc, appts, booked, pubs, conn, brokerUp, now, nreq>>

\* the event loop starts the handler of a confirm request
ServeConfirm(w) == LoopFree(w) /\ ConfirmLoad(w)

\* the event loop starts the handler of a cancel request
ServeCancel(w) == LoopFree(w) /\ CancelLoad(w)

PublisherInit ==
    /\ now = slot_available_date[1] * DaySeconds + slot_start_time[1] - DaySeconds
    /\ \E e \in BOOLEAN, confirmed \in BOOLEAN :
         /\ appts = <<IF confirmed THEN Confirmed(BookedAppointment(e), 1)
                                   ELSE BookedAppointment(e)>>
         /\ pubs = <<IF confirmed THEN <<"appointment_confirmed">> ELSE <<>> >>
    /\ booked = TriggerInsert([s \in SlotIds |-> FALSE], BookedAppointment(FALSE))
    /\ ws = [w \in Workers |-> IdleW]
    /\ brokerUp \in BOOLEAN
    /\ conn = setup_connection(brokerUp)
    /\ nreq = 0
    /\ proc = Serving

PublisherNext ==
    \/ \E w \in Workers : ServeConfirm(w)
    \/ \E w \in Workers : ConfirmCommit(w)
    \/ \E w \in Workers : ServeCancel(w)
    \/ \E w \in Workers : CancelCommit(w)
    \/ \E w \in Workers : PublishHealth(w)
    \/ \E w \in Workers : PublishSetup(w)
    \/ \E w \in Workers : PublishSetupWait(w)
    \/ \E w \in Workers : PublishSetupTimeout(w)
    \/ \E w \in Workers : PublishSend(w)
    \/ \E w \in Workers : PublishReturn(w)
    \/ \E w \in Workers : Responded(w)

PublisherSpec == PublisherInit /\ [][PublisherNext]_vars

\* a handler inside a publish call keeps running: the call is synchronous
\* code of the handler, and time passes while it blocks. Nothing makes the
\* broker answer a connection attempt.
PublisherLiveSpec ==
    /\ PublisherSpec
    /\ \A w \in Workers :
         /\ WF_vars(PublishHealth(w))
         /\ WF_vars(PublishSetupWait(w))
         /\ WF_vars(PublishSetupTimeout(w))
         /\ WF_vars(PublishSend(w))
         /\ WF_vars(PublishReturn(w))

\* the broker goes away or comes back; the publisher's connection object
\* does not notice
BrokerTurn ==
    /\ brokerUp' = ~brokerUp
    /\ UNCHANGED <<proc, appts, booked, ws, pubs, conn, now, nreq>>

RecoveryNext ==
    \/ PublisherNext
    \/ BrokerTurn

\* the publish calls of the handlers while the broker comes and goes at any
\* moment
RecoverySpec ==
    /\ PublisherInit /\ [][RecoveryNext]_vars
    /\ \A w \in Workers :
         /\ WF_vars(PublishHealth(w))
         /\ WF_vars(PublishSetupWait(w))
         /\ WF_vars(PublishSetupTimeout(w))
         /\ WF_vars(PublishSend(w))
         /\ WF_vars(PublishReturn(w))

----------------------------------------------------------------------------
(* The repository's conflict query; no handler calls it *)

\* a conflict query that does not look at the status
check_appointment_conflict_AnyStatus(doctor_id, appointment_date, appointment_time, exclude_appointment_id) ==
    LET query == {i \in Ids :
                    /\ appts[i]["doctor_id"] = doctor_id
                    /\ appts[i]["appointment_date"] = appointment_date
                    /\ appts[i]["appointment_time"] = appointment_time}
        rows == IF exclude_appointment_id # NoId
                THEN query \ {exclude_appointment_id} ELSE query
    IN rows # {}

\* check_appointment_conflict, lines 234-254; the exclusion is applied when
\* the id is truthy, neither None nor 0
check_appointment_conflict(doctor_id, appointment_date, appointment_time, exclude_appointment_id) ==
    LET query == {i \in Ids :
                    /\ appts[i]["doctor_id"] = doctor_id
                    /\ appts[i]["appointment_date"] = appointment_date
                    /\ appts[i]["appointment_time"] = appointment_time
                    /\ appts[i]["status"] \in {"PENDING", "CONFIRMED"}}
        rows == IF exclude_appointment_id # NoId
                THEN query \ {exclude_appointment_id} ELSE query
    IN rows # {}

\* Optional[int]: None, written -1 in a request, is no id
NoneArg == 0 - 1

OptionalId(x) == IF x = NoneArg THEN NoId ELSE x

\* the arguments of the conflict query: a doctor, the date and time of a
\* slot, and as excluded id None, 0, the id of a row or an id past the table
ConflictArgs ==
    [doctor_id : DoctorArgs, slot_id : SlotIds,
     exclude_appointment_id : {NoneArg} \cup (0..(Len(appts) + 1))]

\* the appointment patient 1 books on slot s, then confirmed, rejected or
\* cancelled by the handlers
StoredAppointment(s, status) ==
    LET row == NewAppointment([patient_id |-> 1, doctor_id |-> slot_doctor_id[s],
                               department_id |-> doctor_department_id[slot_doctor_id[s]],
                               slot_id |-> s, reason |-> "r1", is_emergency |-> FALSE])
    IN CASE status = "PENDING" -> row
         [] status = "CONFIRMED" -> Confirmed(row, row["doctor_id"])
         [] status = "REJECTED" -> Rejected(row, "why")
         [] status = "CANCELLED" -> Cancelled(row, "PATIENT", "c1")

Statuses == {"PENDING", "CONFIRMED", "REJECTED", "CANCELLED"}

\* the slots' flags after the rows were inserted and brought to their status
\* one after the other
RECURSIVE BookedAfter(_)
BookedAfter(rows) ==
    IF rows = <<>> THEN [s \in SlotIds |-> FALSE]
    ELSE LET before == BookedAfter(SubSeq(rows, 1, Len(rows) - 1))
             row == rows[Len(rows)]
             inserted == TriggerInsert(before, row)
         IN IF row["status"] = "CANCELLED"
            THEN [inserted EXCEPT ![row["slot_id"]] = FALSE]
            ELSE inserted

\* a table of one to MaxAppts appointments in any status
ConflictInit ==
    /\ now = DaySeconds + 28800
    /\ \E n \in 1..MaxAppts :
         \E slots \in [1..n -> SlotIds], sts \in [1..n -> Statuses] :
            appts = [i \in 1..n |-> StoredAppointment(slots[i], sts[i])]
    /\ booked = BookedAfter(appts)
    /\ pubs = [i \in 1..Len(appts) |->
                 IF appts[i]["status"] = "CONFIRMED"
                 THEN <<"appointment_confirmed">> ELSE <<>>]
    /\ ws = [w \in Workers |-> IdleW]
    /\ brokerUp \in BOOLEAN
    /\ conn = setup_connection(brokerUp)
    /\ nreq = 0
    /\ proc = Serving

\* a call of the conflict query on the table; res is its answer
ConflictQuery(w) ==
    /\ ws[w].pc = "idle" /\ LoopFree(w)
    /\ \E a \in ConflictArgs :
         LET answer == check_appointment_conflict(a.doctor_id,
                           slot_available_date[a.slot_id], slot_start_time[a.slot_id],
                           OptionalId(a.exclude_appointment_id))
         IN ws' = [ws EXCEPT ![w] = [IdleW EXCEPT !.op = "conflict", !.pc = "done",
                                       !.arg = <<a>>,
                                       !.res = IF answer THEN "conflict" ELSE "free"]]
    /\ UNCHANGED <<proc, appts, booked, pubs, conn, brokerUp, now, nreq>>

ConflictNext ==
    \/ \E w \in Workers : ConflictQuery(w)
    \/ \E w \in Workers : Responded(w)

ConflictSpec == ConflictInit /\ [][ConflictNext]_vars

----------------------------------------------------------------------------
(* The life of one server process: the lifespan's startup, the requests'    *)
(* dependencies, which fetch the publisher in threads of the thread pool,   *)
(* and the lifespan's shutdown                                              *)

\* a process that has not run its startup: the global is None
NotStarted == [phase |-> "starting", instance |-> 0, built |-> 0, closed |-> FALSE]

\* get_event_publisher, line 236: a new instance is constructed and assigned
\* to the global
construct(p) == [p EXCEPT !.built = @ + 1, !.instance = p.built + 1]

\* get_event_publisher run from its first line to its return
get_event_publisher(p) == IF p.instance = 0 THEN construct(p) ELSE p

\* a startup that leaves the publisher to the first request
startup_publisher_Lazy(p) == p

\* lifespan, lines 45-52: the startup fetches the publisher
startup_publisher(p) == get_event_publisher(p)

\* lifespan up to its yield; no request is served before it
Startup ==
    /\ proc.phase = "starting"
    /\ brokerUp' \in BOOLEAN
    /\ proc' = [startup_publisher(proc) EXCEPT !.phase = "serving"]
    /\ conn' = IF proc'.built > proc.built THEN setup_connection(brokerUp') ELSE conn
    /\ UNCHANGED <<appts, booked, ws, pubs, now, nreq>>

\* AppointmentService.__init__ in a thread of the pool, get_event_publisher
\* line 235: the thread reads the global
GetCheck(w) ==
    /\ proc.phase = "serving"
    /\ ws[w].pc = "idle" /\ nreq < MaxRequests
    /\ nreq' = nreq + 1
    /\ ws' = [ws EXCEPT ![w] = [IdleW EXCEPT !.op = "get", !.pc = "get",
                                             !.id = proc.instance]]
    /\ UNCHANGED <<proc, appts, booked, pubs, conn, brokerUp, now>>

\* get_event_publisher, lines 236-237: the thread constructs an instance if
\* it read None, and returns the global; id is the instance it returns
GetReturn(w) ==
    /\ ws[w].op = "get" /\ ws[w].pc = "get"
    /\ brokerUp' \in BOOLEAN
    /\ proc' = IF ws[w].id = 0 THEN construct(proc) ELSE proc
    /\ conn' = IF proc'.built > proc.built THEN setup_connection(brokerUp') ELSE conn
    /\ ws' = [ws EXCEPT ![w].pc = "done", ![w].res = "ok", ![w].id = proc'.instance]
    /\ UNCHANGED <<appts, booked, pubs, now, nreq>>

\* close, lines 214-223
close(c) == IF c = "open" THEN "closed" ELSE c

\* lifespan after its yield, lines 56-66: the requests are through, the
\* shutdown fetches the publisher and closes it
Shutdown ==
    /\ proc.phase = "serving"
    /\ \A w \in Workers : ws[w].pc = "idle"
    /\ proc' = [get_event_publisher(proc) EXCEPT !.phase = "stopped", !.closed = TRUE]
    /\ conn' = close(conn)
    /\ UNCHANGED <<appts, booked, ws, pubs, brokerUp, now, nreq>>

LifecycleInit ==
    /\ proc = NotStarted
    /\ appts = <<>>
    /\ booked = [s \in SlotIds |-> FALSE]
    /\ pubs = <<>>
    /\ ws = [w \in Workers |-> IdleW]
    /\ brokerUp \in BOOLEAN
    /\ conn = "none"
    /\ now \in ClockInstants
    /\ nreq = 0

LifecycleNext ==
    \/ Startup
    \/ \E w \in Workers : GetCheck(w)
    \/ \E w \in Workers : GetReturn(w)
    \/ \E w \in Workers : Responded(w)
    \/ Shutdown

LifecycleSpec == LifecycleInit /\ [][LifecycleNext]_vars

----------------------------------------------------------------------------
(* Properties *)

\* the PENDING or CONFIRMED appointments that reference slot s
ActiveOn(s) == {i \in Ids : appts[i]["slot_id"] = s /\ appts[i]["status"] \in Active}

\* the handlers that are between the load and the response of a request on
\* appointment i
InFlight(i) == {w \in Workers : ws[w].pc # "idle" /\ ws[w].id = i}

\* C1: in every reachable state each slot is referenced by at most one
\* appointment whose status is PENDING or CONFIRMED.
C1_SlotHeldByAtMostOne == \A s \in SlotIds : Cardinality(ActiveOn(s)) <= 1

\* C2: a Create that returns success has booked its slot for itself alone:
\* of two Creates that both read the slot as available before either
\* commits, the second to commit does not return success next to the first
\* one's appointment.
C2_ConcurrentCreateOneWinner ==
    \A w \in Workers :
        (ws[w].pc = "done" /\ ws[w].op = "create" /\ ws[w].res = "ok")
        => /\ booked[appts[ws[w].id]["slot_id"]]
           /\ ActiveOn(appts[ws[w].id]["slot_id"]) = {ws[w].id}

\* C3: in every reachable state a slot's booked flag is true if and only if
\* exactly one appointment with status PENDING or CONFIRMED references it.
C3_BookedIffOneActive ==
    \A s \in SlotIds : booked[s] <=> (Cardinality(ActiveOn(s)) = 1)

AllowedTransitions ==
    {<<"PENDING", "CONFIRMED">>, <<"PENDING", "REJECTED">>,
     <<"PENDING", "CANCELLED">>, <<"CONFIRMED", "CANCELLED">>}

\* C4: the stored status of an appointment only changes along
\* PENDING->CONFIRMED, PENDING->REJECTED, PENDING->CANCELLED or
\* CONFIRMED->CANCELLED, so REJECTED and CANCELLED are never left.
C4_StatusTransitions ==
    [][\A i \in Ids :
         appts'[i]["status"] # appts[i]["status"]
         => <<appts[i]["status"], appts'[i]["status"]>> \in AllowedTransitions]_vars

\* C5: the stored record of an appointment is one that some serial order of
\* the Confirm, Cancel and Update requests produces: a CONFIRMED appointment
\* carries no cancellation or rejection, a REJECTED one no confirmation or
\* cancellation, a PENDING one none of the three, and once every request on
\* it has responded a CANCELLED appointment for which a confirmed
\* notification was attempted has its cancelled notification too.
C5_SerialOutcome ==
    \A i \in Ids :
        LET r == appts[i]
        IN /\ r["status"] = "PENDING"
                => /\ r["confirmed_at"] = NoTime /\ r["rejected_at"] = NoTime
                   /\ r["cancelled_at"] = NoTime
           /\ r["status"] = "CONFIRMED"
                => /\ r["confirmed_at"] # NoTime /\ r["rejected_at"] = NoTime
                   /\ r["cancelled_at"] = NoTime
           /\ r["status"] = "REJECTED"
                => /\ r["rejected_at"] # NoTime /\ r["confirmed_at"] = NoTime
                   /\ r["cancelled_at"] = NoTime
           /\ r["status"] = "CANCELLED"
                => /\ r["cancelled_at"] # NoTime /\ r["rejected_at"] = NoTime
                   /\ (InFlight(i) = {} /\ pubs[i] # <<>>)
                        => pubs[i] = <<"appointment_confirmed", "appointment_cancelled">>

\* C6: a Confirm that succeeds with action confirm has made exactly one
\* publish attempt, of kind appointment_confirmed; a Confirm that succeeds
\* with action reject, and a Confirm that fails, has made none.
C6_ConfirmPublishesOnce ==
    \A w \in Workers :
        (ws[w].pc = "done" /\ ws[w].op = "confirm")
        => ws[w].sent = IF ws[w].res = "ok" /\ ws[w].arg = <<"confirm">>
                        THEN <<"appointment_confirmed">>
                        ELSE <<>>

C6_Witness ==
    \E w \in Workers :
        /\ ws[w].pc = "done" /\ ws[w].op = "confirm" /\ ws[w].res = "ok"
        /\ ws[w].arg = <<"confirm">> /\ ws[w].sent = <<"appointment_confirmed">>

\* C7: a Cancel that succeeds on an appointment it found PENDING has made no
\* publish attempt; one that succeeds on an appointment it found CONFIRMED
\* has made exactly one, of kind appointment_cancelled.
C7_CancelPublishesIffConfirmed ==
    \A w \in Workers :
        (ws[w].pc = "done" /\ ws[w].op = "cancel" /\ ws[w].res = "ok")
        => /\ ws[w].loaded = "PENDING" => ws[w].sent = <<>>
           /\ ws[w].loaded = "CONFIRMED" => ws[w].sent = <<"appointment_cancelled">>
           /\ ws[w].loaded \in {"PENDING", "CONFIRMED"}

C7_Witness ==
    \E w \in Workers :
        /\ ws[w].pc = "done" /\ ws[w].op = "cancel" /\ ws[w].res = "ok"
        /\ ws[w].loaded = "CONFIRMED" /\ ws[w].sent = <<"appointment_cancelled">>

\* C8: a handler makes its publish attempt only after its own status change
\* is committed: no handler has published while its commit is still to come.
C8_PublishAfterCommit ==
    \A w \in Workers : ws[w].sent # <<>> => ws[w].committed

\* C9: a Confirm or Cancel whose publish attempt failed (the call returned
\* false) still responds with success and its status change is committed.
C9_PublishFailureNotEscalated ==
    \A w \in Workers :
        (ws[w].pc = "done" /\ ws[w].op \in {"confirm", "cancel"}
            /\ ws[w].sent # <<>> /\ ~ws[w].delivered)
        => /\ ws[w].res = "ok"
           /\ ws[w].committed
           /\ ws[w].op = "confirm"
                => /\ appts[ws[w].id]["status"] = "CONFIRMED"
                   /\ appts[ws[w].id]["confirmed_at"] # NoTime

C9_Witness ==
    \E w \in Workers :
        /\ ws[w].pc = "done" /\ ws[w].op \in {"confirm", "cancel"}
        /\ ws[w].sent # <<>> /\ ~ws[w].delivered /\ ws[w].res = "ok"

\* C10: the publish attempts made for an appointment form a prefix of
\* <<appointment_confirmed, appointment_cancelled>>, and an appointment that
\* was cancelled without ever being confirmed has no attempt at all.
C10_AttemptsFormPrefix ==
    \A i \in Ids :
        /\ pubs[i] \in {<<>>, <<"appointment_confirmed">>,
                        <<"appointment_confirmed", "appointment_cancelled">>}
        /\ (appts[i]["status"] = "CANCELLED" /\ appts[i]["confirmed_at"] = NoTime)
              => pubs[i] = <<>>

\* seconds from now to the scheduled date and time of appointment i
LeadOf(i) ==
    appts[i]["appointment_date"] * DaySeconds + appts[i]["appointment_time"] - now

\* the shortest lead time at which appointment i can still be cancelled: 30
\* minutes for an emergency appointment, 2 hours for a regular one
MinLeadOf(i) == IF appts[i]["is_emergency"] THEN 30 * 60 ELSE 2 * 3600

\* C11: a Cancel passes the lead-time check exactly when the lead time is at
\* least 2 hours (regular) or 30 minutes (emergency): the rule allows the
\* appointment iff its lead time reaches the threshold, a Cancel that
\* succeeded had it, and one denied as too late did not; a lead time at the
\* threshold is allowed, one second less and every negative one is denied.
C11_LeadTimeThresholds ==
    /\ \A i \in Ids : (LeadTimeResult(appts[i]) = "ok") <=> (LeadOf(i) >= MinLeadOf(i))
    /\ \A i \in Ids : LeadOf(i) < 0 => LeadTimeResult(appts[i]) # "ok"
    /\ \A w \in Workers :
         (ws[w].pc = "done" /\ ws[w].op = "cancel" /\ ws[w].id \in Ids)
         => /\ ws[w].res = "ok" => LeadOf(ws[w].id) >= MinLeadOf(ws[w].id)
            /\ ws[w].res = "TooLateRegular"
                 => ~appts[ws[w].id]["is_emergency"] /\ LeadOf(ws[w].id) < 2 * 3600
            /\ ws[w].res = "TooLateEmergency"
                 => appts[ws[w].id]["is_emergency"] /\ LeadOf(ws[w].id) < 30 * 60

\* a regular appointment cancelled exactly two hours ahead
C11_Witness ==
    \E w \in Workers :
        /\ ws[w].pc = "done" /\ ws[w].op = "cancel" /\ ws[w].res = "ok"
        /\ ~appts[ws[w].id]["is_emergency"] /\ LeadOf(ws[w].id) = 2 * 3600

\* C12: while the lead-time policy denies cancelling an appointment, no
\* Cancel goes past its check: the appointment keeps its status and has no
\* cancellation metadata, its slot is booked, and no appointment_cancelled
\* publish attempt was made.
C12_DeniedCancelChangesNothing ==
    \A i \in Ids :
        LeadOf(i) < MinLeadOf(i)
        => /\ appts[i]["status"] \in Active
           /\ appts[i]["cancelled_by"] = NoText
           /\ appts[i]["cancelled_at"] = NoTime
           /\ appts[i]["cancellation_reason"] = NoText
           /\ booked[appts[i]["slot_id"]]
           /\ pubs[i] \in {<<>>, <<"appointment_confirmed">>}
           /\ \A w \in Workers :
                (ws[w].op = "cancel" /\ ws[w].id = i)
                => /\ ws[w].pc = "done" /\ ws[w].sent = <<>> /\ ~ws[w].committed
                   /\ ws[w].res \in {"NotYourAppointment", "InvalidCancelledBy",
                                      "TooLateRegular", "TooLateEmergency"}

\* a confirmed regular appointment one second inside the two hours, after a
\* Cancel was denied
C12_Witness ==
    \E w \in Workers :
        /\ ws[w].pc = "done" /\ ws[w].op = "cancel" /\ ws[w].res = "TooLateRegular"
        /\ appts[ws[w].id]["status"] = "CONFIRMED"
        /\ LeadOf(ws[w].id) = 2 * 3600 - 1
        /\ booked[appts[ws[w].id]["slot_id"]]

\* C13: an appointment on which a Cancel has succeeded (its cancelled-at is
\* recorded) has status CANCELLED, carries cancelled-by and the reason, and
\* no longer holds its slot: the slot is unbooked unless another active
\* appointment has it.
C13_CancelledAndReleased ==
    \A i \in Ids :
        appts[i]["cancelled_at"] # NoTime
        => /\ appts[i]["status"] = "CANCELLED"
           /\ appts[i]["cancelled_by"] \in {"PATIENT", "DOCTOR"}
           /\ appts[i]["cancellation_reason"] # NoText
           /\ booked[appts[i]["slot_id"]] => ActiveOn(appts[i]["slot_id"]) # {}

\* the handlers that have just refused a request of kind op: the error is
\* their response, and the store is as they read it
Refusing(w, op) == ws[w].pc = "done" /\ ws[w].op = op /\ ws[w].res # "ok"

\* C14: a Confirm on an appointment that does not exist fails with NotFound,
\* on one whose status is not PENDING with InvalidState, on a PENDING one of
\* another doctor with Forbidden, whatever the action asked; the handler
\* that refused has committed nothing and made no publish attempt.
C14_ConfirmRefusals ==
    \A w \in Workers :
        Refusing(w, "confirm")
        => /\ ws[w].sent = <<>> /\ ~ws[w].committed /\ ws[w].dirty = {}
           /\ ws[w].res = "AppointmentNotFound" <=> ws[w].id \notin Ids
           /\ ws[w].res = "NotPending"
                <=> (ws[w].id \in Ids /\ appts[ws[w].id]["status"] # "PENDING")
           /\ \A id \in AppointmentArgs, c \in ConfirmArgs, by \in UserArgs :
                LET r == ConfirmResult(id, c.action, c.rejection_reason, by)
                IN /\ id \notin Ids => r = "AppointmentNotFound"
                   /\ (id \in Ids /\ appts[id]["status"] # "PENDING") => r = "NotPending"
                   /\ (id \in Ids /\ appts[id]["status"] = "PENDING"
                          /\ appts[id]["doctor_id"] # by) => r = "NotYourAppointment"

\* a Confirm by a doctor who is not the appointment's doctor was refused
C14_Witness ==
    \E w \in Workers :
        /\ Refusing(w, "confirm") /\ ws[w].res = "NotYourAppointment"
        /\ appts[ws[w].id]["status"] = "PENDING"

\* C15: for the doctor of a PENDING appointment, action reject with a
\* missing or empty rejection reason and an action that is neither confirm
\* nor reject are refused with InvalidArgument, and the appointment is still
\* PENDING; a reject with a non-empty reason goes through, and when it has
\* the appointment is REJECTED with that reason and a timestamp.
C15_RejectNeedsReason ==
    \A w \in Workers :
        (ws[w].pc = "done" /\ ws[w].op = "confirm")
        => /\ ws[w].res \in {"RejectionReasonRequired", "InvalidAction"}
                => /\ appts[ws[w].id]["status"] = "PENDING"
                   /\ appts[ws[w].id]["rejection_reason"] = NoText
                   /\ appts[ws[w].id]["rejected_at"] = NoTime
                   /\ ws[w].sent = <<>> /\ ~ws[w].committed
           /\ (ws[w].res = "ok" /\ ws[w].arg[1] = "reject")
                => /\ ws[w].arg[2] \notin {NoText, ""}
                   /\ appts[ws[w].id]["status"] = "REJECTED"
                   /\ appts[ws[w].id]["rejection_reason"] = ws[w].arg[2]
                   /\ appts[ws[w].id]["rejected_at"] # NoTime
                   /\ appts[ws[w].id]["rejected_at"] <= now
           /\ \A id \in Ids, by \in UserArgs :
                (appts[id]["status"] = "PENDING" /\ appts[id]["doctor_id"] = by)
                => /\ ConfirmResult(id, "Reject", NoText, by) = "RejectionReasonRequired"
                   /\ ConfirmResult(id, "Reject", "", by) = "RejectionReasonRequired"
                   /\ ConfirmResult(id, "postpone", NoText, by) = "InvalidAction"
                   /\ ConfirmResult(id, "Reject", "why", by) = "ok"

\* a reject with a reason went through
C15_Witness ==
    \E w \in Workers :
        /\ ws[w].pc = "done" /\ ws[w].op = "confirm" /\ ws[w].res = "ok"
        /\ ws[w].arg = <<"reject", "why">>
        /\ appts[ws[w].id]["status"] = "REJECTED"

\* C16: a Cancel on an appointment that is neither PENDING nor CONFIRMED
\* fails with InvalidState; on an active one, role PATIENT by someone who is
\* not its patient and role DOCTOR by someone who is not its doctor fail
\* with Forbidden, and any other role with InvalidArgument; the handler that
\* refused has committed nothing and made no publish attempt.
C16_CancelRefusals ==
    \A w \in Workers :
        Refusing(w, "cancel")
        => /\ ws[w].sent = <<>> /\ ~ws[w].committed /\ ws[w].dirty = {}
           /\ ws[w].res \in {"AlreadyCancelled", "CannotCancel"}
                <=> (ws[w].id \in Ids /\ appts[ws[w].id]["status"] \notin Active)
           /\ ws[w].res \in {"NotYourAppointment", "InvalidCancelledBy"}
                => appts[ws[w].id]["status"] \in Active
           /\ \A id \in Ids, role \in RoleArgs, user \in UserArgs :
                LET r == CancelResult(id, role, user)
                    a == appts[id]
                IN /\ a["status"] \notin Active => r \in {"AlreadyCancelled", "CannotCancel"}
                   /\ (a["status"] \in Active /\ role = "PATIENT" /\ a["patient_id"] # user)
                        => r = "NotYourAppointment"
                   /\ (a["status"] \in Active /\ role = "DOCTOR" /\ a["doctor_id"] # user)
                        => r = "NotYourAppointment"
                   /\ (a["status"] \in Active /\ role \notin {"PATIENT", "DOCTOR"})
                        => r = "InvalidCancelledBy"

\* a Cancel with a role that is neither PATIENT nor DOCTOR was refused
C16_Witness ==
    \E w \in Workers :
        /\ Refusing(w, "cancel") /\ ws[w].res = "InvalidCancelledBy"
        /\ appts[ws[w].id]["status"] \in Active
        /\ booked[appts[ws[w].id]["slot_id"]]

\* C17: an Update of an appointment that does not exist fails with NotFound;
\* of one of another patient with Forbidden; of the caller's own, unless it
\* is PENDING or CONFIRMED, with InvalidState; and of an active one dated
\* before today with InvalidArgument; the handler that refused has
\* committed nothing.
C17_UpdateRefusals ==
    \A w \in Workers :
        Refusing(w, "update")
        => /\ ws[w].sent = <<>> /\ ~ws[w].committed /\ ws[w].dirty = {}
           /\ ws[w].res = "AppointmentNotFound" <=> ws[w].id \notin Ids
           /\ ws[w].res = "CannotUpdate" => appts[ws[w].id]["status"] \notin Active
           /\ ws[w].res = "PastAppointment"
                => /\ appts[ws[w].id]["status"] \in Active
                   /\ appts[ws[w].id]["appointment_date"] * (24 * 3600) + 24 * 3600 <= now
           /\ \A id \in AppointmentArgs, patient \in UserArgs, d \in NewDoctorArgs :
                LET r == UpdateResult(id, patient, d)
                IN IF id \notin Ids THEN r = "AppointmentNotFound"
                   ELSE IF appts[id]["patient_id"] # patient THEN r = "NotYourAppointment"
                   ELSE IF appts[id]["status"] \notin Active THEN r = "CannotUpdate"
                   ELSE IF appts[id]["appointment_date"] * (24 * 3600) + 24 * 3600 <= now
                        THEN r = "PastAppointment"
                   ELSE r \in {"ok", "NewDoctorNotFound"}

\* an Update of an appointment whose date has passed was refused
C17_Witness ==
    \E w \in Workers :
        /\ Refusing(w, "update") /\ ws[w].res = "PastAppointment"
        /\ appts[ws[w].id]["status"] \in Active

\* an update request that supplies a new reason and nothing else
ReasonOnly(u) ==
    /\ u.reason # NoText /\ u.doctor_id = NoId /\ u.slot_id = NoId
    /\ u.is_emergency = NoFlag

\* the step in which handler w commits its update
UpdateCommits(w) == ws[w].op = "update" /\ ws[w].pc = "commit" /\ ws'[w].pc = "done"

\* C18: the commit of an Update that supplies only a new reason sets the
\* reason of its appointment and changes no other column of it (status,
\* doctor, department, slot id, date and time included), no other
\* appointment and no slot's booked flag.
C18_ReasonOnlyUpdate ==
    [][\A w \in Workers :
         (UpdateCommits(w) /\ ReasonOnly(ws[w].arg[1]))
         => /\ booked' = booked
            /\ appts'[ws[w].id]["reason"] = ws[w].arg[1].reason
            /\ \A f \in Fields \ {"reason"} : appts'[ws[w].id][f] = appts[ws[w].id][f]
            /\ \A i \in Ids \ {ws[w].id} : appts'[i] = appts[i]]_vars

\* an Update with only a new reason has gone through
C18_Witness ==
    \E w \in Workers :
        /\ ws[w].pc = "done" /\ ws[w].op = "update" /\ ws[w].res = "ok"
        /\ ReasonOnly(ws[w].arg[1])
        /\ appts[ws[w].id]["reason"] = "r2"
        /\ booked[appts[ws[w].id]["slot_id"]]

\* C19: the commit of an Update that changes the slot leaves, in one step,
\* the appointment pointing to the new slot, the new slot booked and the
\* slot the appointment was on unbooked; an Update refused at the slot
\* check changes no appointment and no slot.
C19_SlotChangeAtomic ==
    [][\A w \in Workers :
         /\ (UpdateCommits(w) /\ "slot_id" \in ws[w].dirty)
              => LET old == appts[ws[w].id]["slot_id"]
                     new == ws[w].arg[1].slot_id
                 IN /\ appts'[ws[w].id]["slot_id"] = new
                    /\ booked'[new]
                    /\ old # new => ~booked'[old]
                    /\ \A s \in SlotIds \ {old, new} : booked'[s] = booked[s]
         /\ (ws[w].op = "update" /\ ws[w].pc = "slot" /\ ws'[w].res # "ok"
                /\ ws'[w].pc = "done")
              => appts' = appts /\ booked' = booked]_vars

\* C20: in every reachable state the slot of every appointment is a slot of
\* the appointment's doctor.
C20_SlotBelongsToDoctor ==
    \A i \in Ids : slot_doctor_id[appts[i]["slot_id"]] = appts[i]["doctor_id"]

----------------------------------------------------------------------------
(* C21: every appointment is in the department of its doctor: the           *)
(* department id of a row is the department id of the doctor the row names, *)
(* after the insert and after every committed update.                       *)
C21_DepartmentOfDoctor ==
    \A i \in Ids :
        appts[i]["department_id"] = doctor_department_id[appts[i]["doctor_id"]]

----------------------------------------------------------------------------
(* C22: a doctor is never double-booked: no two appointments that are       *)
(* PENDING or CONFIRMED have the same doctor, date and time, also when the  *)
(* doctor has two slots with the same date and start time.                  *)
C22_NoDoubleBooking ==
    \A i, j \in Ids :
        /\ i # j
        /\ appts[i]["status"] \in Active /\ appts[j]["status"] \in Active
        /\ appts[i]["doctor_id"] = appts[j]["doctor_id"]
        /\ appts[i]["appointment_date"] = appts[j]["appointment_date"]
        => appts[i]["appointment_time"] # appts[j]["appointment_time"]

\* the request names a patient, an active doctor of the requested department
\* and an unbooked slot of that doctor that is not in the past
CreateChecksPass(a) ==
    /\ a.patient_id \in PatientIds
    /\ a.doctor_id \in DoctorIds /\ doctor_is_active[a.doctor_id]
    /\ a.department_id = doctor_department_id[a.doctor_id]
    /\ a.slot_id \in SlotIds /\ ~booked[a.slot_id]
    /\ slot_available_date[a.slot_id] >= Today
    /\ slot_doctor_id[a.slot_id] = a.doctor_id

\* the step in which handler w takes a Create and runs its checks
CreateChecks(w) == ws[w].pc = "idle" /\ ws'[w].op = "create"

C24_CreatedIsPendingAndBooked ==
    \A w \in Workers :
        (ws[w].pc = "done" /\ ws[w].op = "create" /\ ws[w].res = "ok")
        => LET a == ws[w].arg[1]
               row == get_by_id(ws[w].id)
           IN /\ ws[w].id \in Ids
              /\ row["status"] = "PENDING"
              /\ row["patient_id"] = a.patient_id
              /\ row["doctor_id"] = a.doctor_id
              /\ row["department_id"] = a.department_id
              /\ row["slot_id"] = a.slot_id
              /\ booked[a.slot_id]

\* an emergency Create for doctor 2 on slot 3 has returned, after an earlier
\* appointment was booked
C24_Witness ==
    \E w \in Workers :
        /\ ws[w].pc = "done" /\ ws[w].op = "create" /\ ws[w].res = "ok"
        /\ ws[w].id = 2 /\ ws[w].arg[1].slot_id = 3 /\ ws[w].arg[1].is_emergency
        /\ appts[2]["doctor_id"] = 2 /\ booked[3]

\* the error kinds that a status code can stand for
KindsOf(code) ==
    IF code = 404 THEN {"NotFound"}
    ELSE IF code = 409 THEN {"Conflict"}
    ELSE IF code = 400 THEN {"InvalidArgument", "Conflict"}
    ELSE {}

\* the doctor of request a has a PENDING or CONFIRMED appointment at the date
\* and time of the slot of request a
DoubleBooked(a) ==
    \E i \in Ids :
        /\ appts[i]["status"] \in Active
        /\ appts[i]["doctor_id"] = a.doctor_id
        /\ appts[i]["appointment_date"] = slot_available_date[a.slot_id]
        /\ appts[i]["appointment_time"] = slot_start_time[a.slot_id]

\* C25: the error of a Create tells what was wrong with the request. For a
\* request with one thing wrong: NotFound when the patient, the doctor or
\* the slot does not exist; InvalidArgument when the department is not the
\* doctor's or the slot is another doctor's; Conflict when the slot is
\* booked or the doctor has an active appointment at the slot's date and
\* time.
C25_CreateErrorKinds ==
    \A a \in CreateArgs :
        LET kinds == KindsOf(CreateStatus[CreateResult(a)])
            patientOk == a.patient_id \in PatientIds
            doctorOk == a.doctor_id \in DoctorIds /\ doctor_is_active[a.doctor_id]
            departmentOk == doctorOk /\ a.department_id = doctor_department_id[a.doctor_id]
            slotExists == a.slot_id \in SlotIds
            slotOwned == slotExists /\ slot_doctor_id[a.slot_id] = a.doctor_id
            slotFree == slotExists /\ ~booked[a.slot_id]
                           /\ slot_available_date[a.slot_id] >= Today
        IN /\ ~patientOk => "NotFound" \in kinds
           /\ (patientOk /\ a.doctor_id \notin DoctorIds) => "NotFound" \in kinds
           /\ (patientOk /\ doctorOk /\ ~departmentOk) => "InvalidArgument" \in kinds
           /\ (patientOk /\ departmentOk /\ ~slotExists) => "NotFound" \in kinds
           /\ (patientOk /\ departmentOk /\ slotFree /\ ~slotOwned)
                => "InvalidArgument" \in kinds
           /\ (patientOk /\ departmentOk /\ slotOwned /\ booked[a.slot_id])
                => "Conflict" \in kinds
           /\ (patientOk /\ departmentOk /\ slotOwned /\ slotFree /\ DoubleBooked(a))
                => "Conflict" \in kinds

\* C26: the metadata of an appointment follows its status. Confirmer and
\* confirmed-at are set together, a CONFIRMED appointment has them, and an
\* appointment has them only if a Confirm of it went through; rejection
\* reason and rejected-at are set exactly when the status is REJECTED;
\* cancelled-by and cancelled-at are set exactly when it is CANCELLED.
C26_MetadataFollowsStatus ==
    \A i \in Ids :
        LET row == appts[i]
        IN /\ row["confirmed_by"] # NoId <=> row["confirmed_at"] # NoTime
           /\ row["status"] = "CONFIRMED" => row["confirmed_at"] # NoTime
           /\ row["confirmed_at"] # NoTime
                => \E k \in 1..Len(pubs[i]) : pubs[i][k] = "appointment_confirmed"
           /\ row["rejection_reason"] # NoText <=> row["status"] = "REJECTED"
           /\ row["rejected_at"] # NoTime <=> row["status"] = "REJECTED"
           /\ row["cancelled_by"] # NoText <=> row["status"] = "CANCELLED"
           /\ row["cancelled_at"] # NoTime <=> row["status"] = "CANCELLED"

Returned == {w \in Workers : ws[w].call.outcome # "none" /\ ws[w].pc \notin PublishSteps}

\* C28: a publish call returns a boolean to its handler and never an error:
\* True only when the message was handed to the channel, False when there
\* was no channel after the reconnect or the send raised; the handler goes
\* on to its commit or its success response either way.
C28_PublishReturnsBoolean ==
    \A w \in Returned :
        /\ ws[w].delivered \in BOOLEAN
        /\ ws[w].delivered <=> ws[w].call.outcome = "sent"
        /\ ws[w].call.outcome \in {"no channel", "raised"} => ~ws[w].delivered
        /\ ws[w].call.outcome = "sent" => ws[w].call.sends = 1
        /\ ws[w].pc \in {"commit", "done"}
        /\ ws[w].res \in {"none", "ok"}

\* a Cancel has answered with success after its publish call found the
\* connection healthy and the send raised
C28_Witness ==
    \E w \in Returned :
        /\ ws[w].op = "cancel" /\ ws[w].pc = "done" /\ ws[w].res = "ok"
        /\ ws[w].call.health = "healthy" /\ ws[w].call.outcome = "raised"
        /\ ~ws[w].delivered /\ conn = "closed"

\* C29: a publish call checks the health of the connection before anything
\* else; it reconnects once if the check failed and not at all if it
\* passed; a reconnect that goes through has declared the exchange, the two
\* queues and the two bindings; after a reconnect that failed the call
\* returns False without a send; no call sends more than once.
C29_OneReconnectOneSend ==
    \A w \in Workers :
        LET c == ws[w].call
        IN /\ c.reconnects <= 1 /\ c.sends <= 1
           /\ c.health = "unchecked" => c.reconnects = 0 /\ c.sends = 0
           /\ c.health = "healthy" => c.reconnects = 0
           /\ (c.health = "unhealthy" /\ ws[w].pc # "pub_setup") => c.reconnects = 1
           /\ (c.reconnects = 1 /\ c.outcome # "no channel")
                => c.declared = {SetupCalls[i] : i \in 3..7}
           /\ c.outcome = "no channel"
                => /\ c.sends = 0 /\ c.reconnects = 1 /\ Cardinality(c.declared) < 5
                   /\ w \in Returned => ~ws[w].delivered

\* a Confirm whose publish call found the connection closed, reconnected,
\* declared the five objects and sent
C29_Witness ==
    \E w \in Returned :
        /\ ws[w].op = "confirm"
        /\ ws[w].call.health = "unhealthy" /\ ws[w].call.reconnects = 1
        /\ Cardinality(ws[w].call.declared) = 5
        /\ ws[w].call.sends = 1 /\ ws[w].delivered

\* C30: at most one handler at a time is in a publish call, its reconnect
\* included: the connection and the channel of the process's publisher are
\* never used by two calls at once.
C30_OnePublishAtATime ==
    Cardinality({w \in Workers : ws[w].pc \in PublishSteps \cup {"publish"}}) <= 1

\* the second publish call of the process is in its reconnect while more
\* requests can come in
C30_Witness ==
    \E w \in Workers :
        /\ ws[w].pc = "pub_setup" /\ ws[w].op = "cancel"
        /\ pubs[ws[w].id] = <<"appointment_confirmed", "appointment_cancelled">>
        /\ nreq < MaxRequests

StatusFields == {"status", "confirmed_by", "confirmed_at", "rejection_reason",
                 "rejected_at", "cancelled_by", "cancelled_at",
                 "cancellation_reason"}

\* handler w takes a step of an Update
UpdateSteps(w) ==
    /\ ws'[w] # ws[w]
    /\ ws[w].op = "update" \/ ws'[w].op = "update"

\* C33: no step of an Update, on a PENDING or on a CONFIRMED appointment and
\* whatever it changes, makes a publish attempt or touches the connection,
\* and none changes the status or the confirmation, rejection or
\* cancellation columns of any appointment.
C33_UpdateKeepsStatusAndSilence ==
    [][\A w \in Workers :
         UpdateSteps(w)
         => /\ pubs' = pubs /\ conn' = conn
            /\ Len(appts') = Len(appts)
            /\ \A i \in Ids : \A f \in StatusFields : appts'[i][f] = appts[i][f]]_vars

\* an Update has changed the doctor of a CONFIRMED appointment
C33_Witness ==
    \E w \in Workers :
        /\ ws[w].pc = "done" /\ ws[w].op = "update" /\ ws[w].res = "ok"
        /\ ws[w].loaded = "CONFIRMED"
        /\ ws[w].arg[1].doctor_id = 3
        /\ appts[ws[w].id]["doctor_id"] = 3
        /\ appts[ws[w].id]["status"] = "CONFIRMED"

\* the appointments that stand in the way of a booking of doctor d at date
\* dt and time t
Conflicting(d, dt, t) ==
    {i \in Ids : /\ appts[i]["doctor_id"] = d
                 /\ appts[i]["appointment_date"] = dt
                 /\ appts[i]["appointment_time"] = t
                 /\ appts[i]["status"] \in Active}

\* C34: whatever the table, the doctor, the date and time and the excluded
\* id, the conflict query answers true exactly when an appointment other
\* than the excluded one has that doctor, date and time and is PENDING or
\* CONFIRMED; REJECTED and CANCELLED appointments and the excluded
\* appointment never make it true.
C34_ConflictExactly ==
    \A w \in Workers :
        (ws[w].op = "conflict" /\ ws[w].pc = "done")
        => LET a == ws[w].arg[1]
               others == Conflicting(a.doctor_id, slot_available_date[a.slot_id],
                                     slot_start_time[a.slot_id])
                            \ {a.exclude_appointment_id}
           IN /\ ws[w].res = "conflict" <=> others # {}
              /\ ws[w].res \in {"conflict", "free"}

\* the table holds an active appointment and a REJECTED or CANCELLED one of
\* the same doctor, date and time, and the query that excludes the active
\* one has answered that there is no conflict
C34_Witness ==
    \E w \in Workers, i, j \in Ids :
        /\ ws[w].op = "conflict" /\ ws[w].pc = "done" /\ ws[w].res = "free"
        /\ ws[w].arg[1].exclude_appointment_id = i
        /\ ws[w].arg[1].doctor_id = appts[i]["doctor_id"]
        /\ slot_available_date[ws[w].arg[1].slot_id] = appts[i]["appointment_date"]
        /\ i # j
        /\ appts[i]["status"] \in Active
        /\ appts[j]["status"] \in {"REJECTED", "CANCELLED"}
        /\ appts[j]["doctor_id"] = appts[i]["doctor_id"]
        /\ appts[j]["appointment_date"] = appts[i]["appointment_date"]
        /\ appts[j]["appointment_time"] = appts[i]["appointment_time"]

C36_DateTimeOfSlot ==
    \A i \in Ids :
        /\ appts[i]["slot_id"] \in SlotIds
        /\ appts[i]["appointment_date"] = slot_available_date[appts[i]["slot_id"]]
        /\ appts[i]["appointment_time"] = slot_start_time[appts[i]["slot_id"]]

\* C37: in every reachable state the recorded confirmer of every CONFIRMED
\* appointment is the appointment's doctor.
C37_ConfirmerIsDoctor ==
    \A i \in Ids :
        appts[i]["status"] = "CONFIRMED" => appts[i]["confirmed_by"] = appts[i]["doctor_id"]

\* C38: a REJECTED appointment does not keep its slot booked: in every
\* reachable state the slot of a REJECTED appointment is unbooked unless an
\* active appointment is on it, so that a Create for the slot can succeed.
C38_RejectReleasesSlot ==
    \A i \in Ids :
        (appts[i]["status"] = "REJECTED" /\ ActiveOn(appts[i]["slot_id"]) = {})
        => ~booked[appts[i]["slot_id"]]

\* the step in which handler w's Update is refused at the slot
UpdateFailsOnSlot(w) ==
    /\ ws[w].op = "update" /\ ws[w].pc = "slot"
    /\ ws'[w].pc = "done" /\ ws'[w].res # "ok"

\* C39: an Update that has changed the doctor on its object and is then
\* refused at the slot, the slot being unavailable, missing or not the new
\* doctor's, writes nothing: the refusal is one of the three slot errors and
\* the step leaves every appointment and every slot's flag as they were.
C39_SlotFailurePersistsNothing ==
    [][\A w \in Workers :
         UpdateFailsOnSlot(w)
         => /\ ws'[w].res \in {"NewSlotNotAvailable", "NewSlotNotFound", "NewSlotWrongDoctor"}
            /\ appts' = appts /\ booked' = booked]_vars

\* an Update that had changed doctor and department on its object was
\* refused at the slot, and the stored appointment has its old doctor,
\* department, slot, date and time
C39_Witness ==
    \E w \in Workers :
        /\ ws[w].op = "update" /\ ws[w].pc = "done"
        /\ ws[w].res = "NewSlotWrongDoctor"
        /\ ws[w].obj["doctor_id"] = 2 /\ ws[w].obj["department_id"] = 2
        /\ \E e \in BOOLEAN : appts[ws[w].id] = BookedAppointment(e)

\* C40: an Update that keeps the slot does not change whether a Cancel is
\* allowed at that moment: if the lead-time policy denies a Cancel of the
\* appointment before the Update commits, it denies it after the commit, the
\* clock being the same.
C40_UpdateKeepsCancelDenied ==
    [][\A w \in Workers :
         (/\ UpdateCommits(w)
          /\ appts'[ws[w].id]["slot_id"] = appts[ws[w].id]["slot_id"]
          /\ LeadTimeResult(appts[ws[w].id]) # "ok")
         => LeadTimeResult(appts'[ws[w].id]) # "ok"]_vars

====
